---- MODULE Spec2Model ----
(***************************************************************************)
(* A model of nirum_wsgi.WsgiApp: construction of the rule table from the  *)
(* service's http_resource annotations, and the handling of one request by *)
(* route(), rpc(), _parse_procedure_arguments() and error().               *)
(*                                                                         *)
(* Text is modelled as a sequence of one-character strings, so that the    *)
(* template compiler, the pattern matcher, the sort of the rule table and  *)
(* the normalisation of names are computed, not assumed.                   *)
(***************************************************************************)
EXTENDS Integers, Sequences, FiniteSets, TLC

(***************************************************************************)
(* Bounds of the model.                                                    *)
(***************************************************************************)
\* the number of annotated methods a modelled service declares, at most
MaxRoutes == 2

(***************************************************************************)
(* Text primitives.                                                        *)
(***************************************************************************)
NL == "\n"

\* the code point of a character: the order Python compares text by
Code(c) ==
    CASE c = NL  -> 10
      [] c = " " -> 32
      [] c = "-" -> 45
      [] c = "/" -> 47
      [] c = "4" -> 52
      [] c = "A" -> 65
      [] c = "B" -> 66
      [] c = "H" -> 72
      [] c = "_" -> 95
      [] c = "a" -> 97
      [] c = "b" -> 98
      [] c = "e" -> 101
      [] c = "h" -> 104
      [] c = "i" -> 105
      [] c = "k" -> 107
      [] c = "m" -> 109
      [] c = "n" -> 110
      [] c = "p" -> 112
      [] c = "t" -> 116
      [] c = "u" -> 117
      [] c = "x" -> 120
      [] c = "z" -> 122
      [] c = "{" -> 123
      [] c = "}" -> 125

\* a < b for two texts: lexicographic by code point, a proper prefix first
RECURSIVE TextLess(_, _)
TextLess(a, b) ==
    IF b = <<>> THEN FALSE
    ELSE IF a = <<>> THEN TRUE
    ELSE IF Head(a) = Head(b) THEN TextLess(Tail(a), Tail(b))
    ELSE Code(Head(a)) < Code(Head(b))

\* str.lower() of one character
LowerChar(c) ==
    CASE c = "A" -> "a"
      [] c = "B" -> "b"
      [] c = "E" -> "e"
      [] c = "F" -> "f"
      [] c = "H" -> "h"
      [] c = "I" -> "i"
      [] c = "M" -> "m"
      [] c = "N" -> "n"
      [] c = "R" -> "r"
      [] c = "S" -> "s"
      [] OTHER   -> c

\* str.lower()
Lower(s) == [i \in 1..Len(s) |-> LowerChar(s[i])]

\* str.strip(): leading and trailing white space removed
RECURSIVE LStrip(_)
LStrip(s) == IF s # <<>> /\ Head(s) \in {" ", NL} THEN LStrip(Tail(s)) ELSE s

RECURSIVE RStrip(_)
RStrip(s) ==
    IF s # <<>> /\ s[Len(s)] \in {" ", NL}
    THEN RStrip(SubSeq(s, 1, Len(s) - 1))
    ELSE s

Strip(s) == RStrip(LStrip(s))

\* str.lstrip('/')
RECURSIVE LStripSlash(_)
LStripSlash(s) == IF s # <<>> /\ Head(s) = "/" THEN LStripSlash(Tail(s)) ELSE s

\* str.replace(u'-', u'_')
HyphenToUnderscore(s) == [i \in 1..Len(s) |-> IF s[i] = "-" THEN "_" ELSE s[i]]

\* sorted(S) for a finite set of texts
RECURSIVE SortedTexts(_)
SortedTexts(S) ==
    IF S = {} THEN <<>>
    ELSE LET least == CHOOSE s \in S : \A t \in S \ {s} : TextLess(s, t)
         IN  <<least>> \o SortedTexts(S \ {least})

(***************************************************************************)
(* compile_uri_template.                                                   *)
(***************************************************************************)
\* the character class [a-zA-Z0-9_-] of value_pattern
NameChars ==
    {"-", "_", "4", "A", "B", "H", "a", "b", "e", "h", "i", "k", "m", "n",
     "p", "t", "u", "x", "z"}

IsNameChar(c) == c \in NameChars

Digits == {"4"}

\* the length of the longest run of name characters of t from position i
RECURSIVE NameRun(_, _)
NameRun(t, i) ==
    IF i <= Len(t) /\ IsNameChar(t[i]) THEN 1 + NameRun(t, i + 1) ELSE 0

\* value_pattern matches at position i of t: '{', one or more name
\* characters, '}'
PlaceholderAt(t, i) ==
    /\ i <= Len(t)
    /\ t[i] = "{"
    /\ NameRun(t, i + 1) >= 1
    /\ i + 1 + NameRun(t, i + 1) <= Len(t)
    /\ t[i + 1 + NameRun(t, i + 1)] = "}"

\* finditer: the placeholders of t from position i on, leftmost first and
\* not overlapping, each as [start, end) with end the position after '}'
RECURSIVE Placeholders(_, _)
Placeholders(t, i) ==
    IF i > Len(t) THEN <<>>
    ELSE IF PlaceholderAt(t, i)
         THEN LET n == NameRun(t, i + 1)
              IN  <<[start |-> i, stop |-> i + n + 2,
                     name |-> SubSeq(t, i + 1, i + n)]>>
                  \o Placeholders(t, i + n + 2)
         ELSE Placeholders(t, i + 1)

\* CompileLoop without the test for a duplicated variable
RECURSIVE CompileLoop_NoDuplicateTest(_, _, _, _)
CompileLoop_NoDuplicateTest(t, ps, k, acc) ==
    IF k > Len(ps) THEN acc
    ELSE LET variable == HyphenToUnderscore(ps[k].name)
             lit == SubSeq(t, acc.last_pos, ps[k].start - 1)
         IN  CompileLoop_NoDuplicateTest(t, ps, k + 1,
                [elems |-> acc.elems \o <<[kind |-> "lit", s |-> lit],
                                          [kind |-> "var", s |-> variable]>>,
                 variables |-> acc.variables \cup {variable},
                 last_pos |-> ps[k].stop,
                 dup |-> FALSE])

\* the loop of compile_uri_template over the placeholders ps from index k:
\* the pattern's elements so far, the variables so far, the position after
\* the last placeholder, and the duplicated variable that stopped it, if any
RECURSIVE CompileLoop(_, _, _, _)
CompileLoop(t, ps, k, acc) ==
    IF k > Len(ps) \/ acc.dup THEN acc
    ELSE LET variable == HyphenToUnderscore(ps[k].name)
             lit == SubSeq(t, acc.last_pos, ps[k].start - 1)
         IN  CompileLoop(t, ps, k + 1,
                [elems |-> acc.elems \o <<[kind |-> "lit", s |-> lit],
                                          [kind |-> "var", s |-> variable]>>,
                 variables |-> acc.variables \cup {variable},
                 last_pos |-> ps[k].stop,
                 dup |-> variable \in acc.variables])

\* re.compile accepts a group name only if it is an identifier
IsIdentifier(name) == name # <<>> /\ Head(name) \notin Digits

\* compile_uri_template(template): the compiled pattern (its elements; the
\* end anchor '$' is part of PatternMatch) and the set of variables, or the
\* exception it raises
compile_uri_template(template) ==
    LET ps == Placeholders(template, 1)
        r == CompileLoop(template, ps, 1,
                 [elems |-> <<>>, variables |-> {}, last_pos |-> 1,
                  dup |-> FALSE])
        elems == r.elems \o
                 <<[kind |-> "lit",
                    s |-> SubSeq(template, r.last_pos, Len(template))]>>
    IN  IF r.dup
        THEN [raised |-> "AnnotationError", elems |-> <<>>, variables |-> {}]
        ELSE IF \E v \in r.variables : ~IsIdentifier(v)
        THEN [raised |-> "re.error", elems |-> <<>>, variables |-> {}]
        ELSE [raised |-> "", elems |-> elems, variables |-> r.variables]

(***************************************************************************)
(* pattern.match(path_info) for a pattern compile_uri_template built.      *)
(***************************************************************************)
NoMatch == [ok |-> FALSE, groups |-> <<>>]

\* lit occurs in path at position j
LitAt(lit, path, j) ==
    /\ j + Len(lit) - 1 <= Len(path)
    /\ \A i \in 1..Len(lit) : path[j + i - 1] = lit[i]

\* the elements of the pattern from index i match path from position j up
\* to the end anchor; groups is a sequence of <<name, text>> pairs.  A
\* variable is '.+?': one or more characters other than a newline, the
\* shortest run the rest of the pattern can follow.  '$' matches at the end
\* of the text and before a newline that ends it.
RECURSIVE MatchFrom(_, _, _, _)
MatchFrom(elems, i, path, j) ==
    IF i > Len(elems)
    THEN IF j = Len(path) + 1 \/ (j = Len(path) /\ path[j] = NL)
         THEN [ok |-> TRUE, groups |-> <<>>]
         ELSE NoMatch
    ELSE IF elems[i].kind = "lit"
    THEN IF LitAt(elems[i].s, path, j)
         THEN MatchFrom(elems, i + 1, path, j + Len(elems[i].s))
         ELSE NoMatch
    ELSE LET fits(k) == /\ \A q \in j..(j + k - 1) : path[q] # NL
                        /\ MatchFrom(elems, i + 1, path, j + k).ok
             lens == {k \in 1..(Len(path) - j + 1) : fits(k)}
         IN  IF lens = {} THEN NoMatch
             ELSE LET k == CHOOSE m \in lens : \A n \in lens : m <= n
                      rest == MatchFrom(elems, i + 1, path, j + k)
                  IN  [ok |-> TRUE,
                       groups |-> <<<<elems[i].s, SubSeq(path, j, j + k - 1)>>>>
                                  \o rest.groups]

\* pattern.match(path): anchored at the start of the path
PatternMatch(elems, path) == MatchFrom(elems, 1, path, 1)

\* match.group(name) is defined
HasGroup(m, name) == \E g \in 1..Len(m.groups) : m.groups[g][1] = name

\* match.group(name)
Group(m, name) ==
    m.groups[CHOOSE g \in 1..Len(m.groups) : m.groups[g][1] = name][2]

(***************************************************************************)
(* The service metadata the Nirum compiler generates.  A method is         *)
(*   name     its facial name: the key of __nirum_service_methods__ and of *)
(*            __nirum_method_annotations__, and the attribute of the       *)
(*            service object                                               *)
(*   behind   its wire name: the key of __nirum_method_names__.behind_names*)
(*   hints    the items of its type hints, in order: parameters by facial  *)
(*            name with their types, and the internal keys '_return',      *)
(*            '_names', '_v' (their values are the fields below)           *)
(*   names    type_hints['_names']: <<facial, wire>> for each parameter    *)
(*   ret      type_hints['_return']                                        *)
(*   errors   whether __nirum_method_error_types__ declares an error union *)
(*   impl     what getattr(service, name) gives                            *)
(*   ann      annotations['http_resource'], when has is TRUE; hasPath and  *)
(*            hasMethod tell whether it holds 'path' and 'method'          *)
(* Type tags are modelled as resolved ('_v' >= 2 only adds a call that     *)
(* returns the tag).                                                       *)
(***************************************************************************)
K_return == <<"_", "r", "e", "t", "u", "r", "n">>
K_names == <<"_", "n", "a", "m", "e", "s">>

Hints(params) ==
    <<[key |-> K_names, type |-> "dict"]>> \o params
    \o <<[key |-> K_return, type |-> "text"]>>

NoAnn == [has |-> FALSE, hasPath |-> FALSE, path |-> <<>>,
          hasMethod |-> FALSE, method |-> ""]

Ann(path, method) == [has |-> TRUE, hasPath |-> TRUE, path |-> path,
                      hasMethod |-> TRUE, method |-> method]

Method(name, behind, params, names, errors, ann) ==
    [name |-> name, behind |-> behind, hints |-> Hints(params),
     names |-> names, ret |-> "text", errors |-> errors,
     impl |-> "callable", ann |-> ann]

P(facial, type) == [key |-> facial, type |-> type]

\* template texts
T_u_i == <<"/", "u", "/", "{", "i", "}">>
T_u_me == <<"/", "u", "/", "m", "e">>
T_u_i_p == <<"/", "u", "/", "{", "i", "}", "/", "p">>
T_root == <<"/">>
T_dup == <<"/", "{", "a", "-", "b", "}", "/", "{", "a", "_", "b", "}">>
T_digit == <<"/", "u", "/", "{", "4", "}">>

\* e_o(tx: text, n: int), wire name e-o, wire parameter names t and n; it
\* has no http_resource annotation and declares an error union
Echo ==
    Method(<<"e", "_", "o">>, <<"e", "-", "o">>,
           <<P(<<"t", "x">>, "text"), P(<<"n">>, "int")>>,
           <<<<<<"t", "x">>, <<"t">>>>, <<<<"n">>, <<"n">>>>>>,
           TRUE, NoAnn)

\* the annotated methods a modelled service is drawn from: well-formed ones
GetUser ==
    Method(<<"g", "u">>, <<"g", "u">>, <<P(<<"i">>, "text")>>,
           <<<<<<"i">>, <<"i">>>>>>, FALSE, Ann(T_u_i, "GET"))
GetMe ==
    Method(<<"m", "e">>, <<"m", "e">>, <<>>, <<>>, FALSE, Ann(T_u_me, "GET"))
GetPosts ==
    Method(<<"u", "p">>, <<"u", "p">>, <<P(<<"i">>, "text")>>,
           <<<<<<"i">>, <<"i">>>>>>, FALSE, Ann(T_u_i_p, "get"))
DelUser ==
    Method(<<"d", "_", "u">>, <<"d", "-", "u">>, <<P(<<"i">>, "text")>>,
           <<<<<<"i">>, <<"i">>>>>>, FALSE, Ann(T_u_i, "DELETE"))
GetByKey ==
    Method(<<"g", "k">>, <<"g", "k">>, <<P(<<"k">>, "text")>>,
           <<<<<<"k">>, <<"i">>>>>>, FALSE, Ann(T_u_i, "GET"))

\* and ones whose annotation __init__ has to reject
AtRoot ==
    Method(<<"r">>, <<"r">>, <<>>, <<>>, FALSE, Ann(T_root, "GET"))
DupVars ==
    Method(<<"d", "d">>, <<"d", "d">>, <<P(<<"a", "_", "b">>, "text")>>,
           <<<<<<"a", "_", "b">>, <<"a", "_", "b">>>>>>, FALSE,
           Ann(T_dup, "GET"))
Uncovered ==
    Method(<<"u", "c">>, <<"u", "c">>,
           <<P(<<"i">>, "text"), P(<<"n">>, "int")>>,
           <<<<<<"i">>, <<"i">>>>, <<<<"n">>, <<"n">>>>>>, FALSE,
           Ann(T_u_i, "GET"))
NoVerb ==
    Method(<<"n", "v">>, <<"n", "v">>, <<P(<<"i">>, "text")>>,
           <<<<<<"i">>, <<"i">>>>>>, FALSE,
           [has |-> TRUE, hasPath |-> TRUE, path |-> T_u_i,
            hasMethod |-> FALSE, method |-> ""])
DigitVar ==
    Method(<<"d", "v">>, <<"d", "v">>, <<>>, <<>>, FALSE,
           Ann(T_digit, "GET"))

WellFormed == {GetUser, GetMe, GetPosts, DelUser, GetByKey}
Rejected == {AtRoot, DupVars, Uncovered, NoVerb, DigitVar}
Catalog == WellFormed \cup Rejected

\* the declarations of a service: Echo, then up to MaxRoutes annotated
\* methods of the catalog in any order, each at most once (the items of
\* __nirum_method_annotations__ in iteration order)
Declarations ==
    {<<Echo>> \o d : d \in
        UNION {{s \in [1..n -> Catalog] :
                  \A i, j \in 1..n : i # j => s[i] # s[j]} : n \in 0..MaxRoutes}}

\* the allowed_origins and allowed_headers a WsgiApp is constructed with
CorsConfigs ==
    {[origins |-> {}, headers |-> {}],
     [origins |-> {<<" ", "A", " ">>, <<"b">>}, headers |-> {<<"H">>, <<"a">>}]}

(***************************************************************************)
(* WsgiApp.__init__                                                        *)
(***************************************************************************)
\* frozenset(d.strip().lower() for d in allowed_origins), and the same for
\* allowed_headers
Normalized(S) == {Lower(Strip(d)) : d \in S}

\* service_methods[method_name]['_names'].values()
WireNames(m) == {m.names[i][2] : i \in 1..Len(m.names)}

\* one pass of the loop body over a method: the rule it appends, nothing
\* (no http_resource), or the exception it raises
RuleOf(m) ==
    IF ~m.ann.has THEN [raised |-> "", skip |-> TRUE, rule |-> <<>>]
    ELSE IF ~m.ann.hasPath
    THEN [raised |-> "KeyError", skip |-> TRUE, rule |-> <<>>]
    ELSE IF LStripSlash(m.ann.path) = <<>>
    THEN [raised |-> "AnnotationError: root", skip |-> TRUE, rule |-> <<>>]
    ELSE LET c == compile_uri_template(m.ann.path)
         IN  IF c.raised = "AnnotationError"
             THEN [raised |-> "AnnotationError: duplicated", skip |-> TRUE,
                   rule |-> <<>>]
             ELSE IF c.raised # ""
             THEN [raised |-> c.raised, skip |-> TRUE, rule |-> <<>>]
             ELSE IF ~m.ann.hasMethod
             THEN [raised |-> "AnnotationError: missing", skip |-> TRUE,
                   rule |-> <<>>]
             ELSE IF WireNames(m) \ c.variables # {}
             THEN [raised |-> "AnnotationError: unsatisfied", skip |-> TRUE,
                   rule |-> <<>>]
             ELSE [raised |-> "", skip |-> FALSE,
                   rule |-> [template |-> m.ann.path, pattern |-> c.elems,
                             verb |-> m.ann.method, method_name |-> m.name]]

\* the loop over method_annotations.items(): the rules in declaration
\* order, or the first exception
RECURSIVE CollectRules(_, _, _)
CollectRules(decl, k, rules) ==
    IF k > Len(decl) THEN [raised |-> "", rules |-> rules]
    ELSE LET r == RuleOf(decl[k])
         IN  IF r.raised # "" THEN [raised |-> r.raised, rules |-> <<>>]
             ELSE CollectRules(decl, k + 1,
                      IF r.skip THEN rules ELSE Append(rules, r.rule))

\* InsertRule without the sort: the rules stay in declaration order
InsertRule_Unsorted(sorted, r) == Append(sorted, r)

\* rules.sort(key=lambda rule: rule[0], reverse=True): descending by
\* template, rules with equal templates staying in their original order
InsertRule(sorted, r) ==
    LET keep == {i \in 1..Len(sorted) :
                    ~TextLess(sorted[i].template, r.template)}
        n == Cardinality(keep)
    IN  SubSeq(sorted, 1, n) \o <<r>> \o SubSeq(sorted, n + 1, Len(sorted))

RECURSIVE SortRules(_, _, _)
SortRules(rules, k, sorted) ==
    IF k > Len(rules) THEN sorted
    ELSE SortRules(rules, k + 1, InsertRule(sorted, rules[k]))

\* WsgiApp(service, allowed_origins, allowed_headers)
NewApp(decl, cors) ==
    LET c == CollectRules(decl, 1, <<>>)
    IN  IF c.raised # ""
        THEN [state |-> "raised", raised |-> c.raised, rules |-> <<>>,
              allowed_origins |-> {}, allowed_headers |-> {}]
        ELSE [state |-> "built", raised |-> "",
              rules |-> SortRules(c.rules, 1, <<>>),
              allowed_origins |-> Normalized(cors.origins),
              allowed_headers |-> Normalized(cors.headers)]

(***************************************************************************)
(* Requests.  An optional text is a sequence holding it, or <<>>.          *)
(*   method   REQUEST_METHOD                                               *)
(*   path     PATH_INFO                                                    *)
(*   query    request.args.get('method')                                   *)
(*   body     request.get_data(): empty, not JSON, or a JSON object given  *)
(*            as a function from wire keys to JSON values                  *)
(*   origin   request.headers['Origin']                                    *)
(***************************************************************************)
Str(s) == [t |-> "str", s |-> s]
Num(s) == [t |-> "num", s |-> s]

EmptyBody == [kind |-> "empty", obj |-> <<>>]
InvalidBody == [kind |-> "invalid", obj |-> <<>>]
Json(obj) == [kind |-> "json", obj |-> obj]

W_t == <<"t">>
W_n == <<"n">>
Hi == <<"h", "i">>

Bodies ==
    {EmptyBody, InvalidBody,
     Json([k \in {W_t, W_n} |-> IF k = W_t THEN Str(Hi) ELSE Num(<<"4">>)]),
     Json([k \in {W_t} |-> Str(Hi)]),
     Json([k \in {W_t} |-> Num(<<"4">>)])}

Verbs == {"GET", "POST", "OPTIONS", "DELETE"}

Paths ==
    {<<"/", "u", "/", "4">>, <<"/", "u", "/", "4", "/", "x">>,
     <<"/", "u", "/", "m", "e">>, <<"/", "u", "/", "4", "/", "p">>,
     <<"/", "u", "/", "m", "e", NL>>}

Queries == {<<>>, <<Echo.behind>>, <<Echo.name>>}

Origins ==
    {<<>>,
     <<<<"h", "t", "t", "p", "s", ":", "/", "/", "A", ":", "4">>>>,
     <<<<"f", "t", "p", ":", "/", "/", "a">>>>}

Requests ==
    [method : Verbs, path : Paths, query : Queries, body : Bodies,
     origin : Origins]

\* what the invoked service method does: it returns a value of its return
\* type, returns a value of another type, raises an error of its declared
\* error union, or raises something else
Behaviours == {"return", "return_mistyped", "raise_declared", "raise_other"}

(***************************************************************************)
(* The value codec (nirum.deserialize, nirum.serialize).                   *)
(***************************************************************************)
\* deserialize_meta(type_, data): a text from a JSON string, an int from a
\* JSON number, ValueError otherwise
deserialize_meta(type, data) ==
    IF (type = "text" /\ data.t = "str") \/ (type = "int" /\ data.t = "num")
    THEN [ok |-> TRUE, value |-> [py |-> type, s |-> data.s]]
    ELSE [ok |-> FALSE, value |-> [py |-> "", s |-> <<>>]]

\* serialize_meta(value)
serialize_meta(value) ==
    IF value.py = "text" THEN Str(value.s) ELSE Num(value.s)

(***************************************************************************)
(* Responses.                                                              *)
(***************************************************************************)
None == [none |-> TRUE, text |-> <<>>]
Msg(text) == [none |-> FALSE, text |-> text]

NoValue == [t |-> "", s |-> <<>>]
NoBody == [shape |-> "empty", tag |-> <<>>, message |-> None,
           value |-> NoValue]
NoErrorCall == [called |-> FALSE, status_code |-> 0, message |-> None]

\* a started response: status, headers as <<name, value>> pairs in order,
\* body; error records the arguments of the error() call that built it
Response(status, headers, body, error) ==
    [kind |-> "response", status |-> status, headers |-> headers,
     body |-> body, exception |-> "", error |-> error]

\* an exception that leaves route()
Raised(exception) ==
    [kind |-> "raised", status |-> 0, headers |-> <<>>, body |-> NoBody,
     exception |-> exception, error |-> NoErrorCall]

NoResponse ==
    [kind |-> "none", status |-> 0, headers |-> <<>>, body |-> NoBody,
     exception |-> "", error |-> NoErrorCall]

ContentType == <<"Content-type", <<"application/json">>>>

\* _raw_response(status_code, response_json)
raw_response(status_code, body, error) ==
    Response(status_code, <<ContentType>>, body, error)

\* HTTP_STATUS_CODES.get(status_code, 'http error')
StatusText(status_code) ==
    CASE status_code = 400 ->
           <<"B", "a", "d", " ", "R", "e", "q", "u", "e", "s", "t">>
      [] status_code = 404 -> <<"N", "o", "t", " ", "F", "o", "u", "n", "d">>
      [] status_code = 405 ->
           <<"M", "e", "t", "h", "o", "d", " ", "N", "o", "t", " ",
             "A", "l", "l", "o", "w", "e", "d">>
      [] status_code = 500 ->
           <<"I", "n", "t", "e", "r", "n", "a", "l", " ", "S", "e", "r", "v",
             "e", "r", " ", "E", "r", "r", "o", "r">>
      [] OTHER -> <<"h", "t", "t", "p", " ", "e", "r", "r", "o", "r">>

\* status_code_text.lower().replace(' ', '_')
StatusTag(status_code) ==
    LET low == Lower(StatusText(status_code))
    IN  [i \in 1..Len(low) |-> IF low[i] = " " THEN "_" ELSE low[i]]

\* the texts error() synthesizes; a constant part of a format is written as
\* one element
NotFoundText(request) ==
    <<"The requested URL ">> \o request.path
    \o <<" was not found on this service.">>

NotAllowedText(request) ==
    <<"The requested URL ">> \o request.path
    \o <<" was not allowed HTTP method ", request.method, ".">>

\* make_error_response(error_type, message)
make_error_response(error_type, message) ==
    [shape |-> "envelope", tag |-> error_type, message |-> message,
     value |-> NoValue]

\* the message error() puts in the envelope: custom_response_map decides
\* 404, 400 and 405; 'message or status_code_text' the rest
ErrorMessage(status_code, request, message) ==
    CASE status_code = 404 -> Msg(NotFoundText(request))
      [] status_code = 400 -> message
      [] status_code = 405 -> Msg(NotAllowedText(request))
      [] OTHER -> IF message.none \/ message.text = <<>>
                  THEN Msg(StatusText(status_code))
                  ELSE message

\* WsgiApp.error(status_code, request, message)
error(status_code, request, message) ==
    raw_response(status_code,
        make_error_response(StatusTag(status_code),
                            ErrorMessage(status_code, request, message)),
        [called |-> TRUE, status_code |-> status_code, message |-> message])

(***************************************************************************)
(* CORS.                                                                   *)
(***************************************************************************)
\* the first position of character c in s, or 0
RECURSIVE IndexFrom(_, _, _)
IndexFrom(s, c, i) ==
    IF i > Len(s) THEN 0 ELSE IF s[i] = c THEN i ELSE IndexFrom(s, c, i + 1)

UpTo(s, c) ==
    LET i == IndexFrom(s, c, 1) IN IF i = 0 THEN s ELSE SubSeq(s, 1, i - 1)

\* urlparse(origin): the scheme, lower-cased, is what precedes the first
\* ':'; the network location follows '//' up to the next '/'; the hostname
\* is the location without its port, lower-cased, or None (<<>>)
urlparse(origin) ==
    LET colon == IndexFrom(origin, ":", 1)
        rest == IF colon = 0 THEN origin
                ELSE SubSeq(origin, colon + 1, Len(origin))
        netloc == IF Len(rest) >= 2 /\ rest[1] = "/" /\ rest[2] = "/"
                  THEN UpTo(SubSeq(rest, 3, Len(rest)), "/")
                  ELSE <<>>
        host == Lower(UpTo(netloc, ":"))
    IN  [scheme |-> IF colon = 0 THEN <<>>
                    ELSE Lower(SubSeq(origin, 1, colon - 1)),
         hostname |-> IF host = <<>> THEN <<>> ELSE <<host>>]

Http == <<"h", "t", "t", "p">>
Https == <<"h", "t", "t", "p", "s">>

\* ', '.join(texts)
RECURSIVE Join(_)
Join(texts) ==
    IF texts = <<>> THEN <<>>
    ELSE IF Len(texts) = 1 THEN texts[1]
    ELSE texts[1] \o <<",", " ">> \o Join(Tail(texts))

\* OriginAllowed without the test of the scheme
OriginAllowed_AnyScheme(app, origin) ==
    LET parsed == urlparse(origin)
    IN  /\ parsed.hostname # <<>>
        /\ parsed.hostname[1] \in app.allowed_origins

\* the Origin test of route(): the scheme is http or https and the hostname
\* is one of self.allowed_origins
OriginAllowed(app, origin) ==
    LET parsed == urlparse(origin)
    IN  /\ parsed.scheme \in {Http, Https}
        /\ parsed.hostname # <<>>
        /\ parsed.hostname[1] \in app.allowed_origins

\* the cors_headers list route() builds when no rule matched
CorsHeaders(app, request) ==
    <<<<"Access-Control-Allow-Methods", <<"POST, OPTIONS">>>>,
      <<"Vary", <<"Origin">>>>>>
    \o (IF app.allowed_headers # {}
        THEN <<<<"Access-Control-Allow-Headers",
                 Join(SortedTexts(app.allowed_headers))>>>>
        ELSE <<>>)
    \o (IF request.origin # <<>> /\ OriginAllowed(app, request.origin[1])
        THEN <<<<"Access-Control-Allow-Origin", request.origin[1]>>>>
        ELSE <<>>)

\* 'k in response.headers'
HasHeader(headers, k) == \E i \in 1..Len(headers) : headers[i][1] = k

\* the loop that merges cors_headers into response.headers: a header the
\* response has already gets ', ' and the value appended, another is added
RECURSIVE MergeHeaders(_, _)
MergeHeaders(headers, cors) ==
    IF cors = <<>> THEN headers
    ELSE LET k == cors[1][1]
             v == cors[1][2]
             merged ==
                 IF HasHeader(headers, k)
                 THEN [i \in 1..Len(headers) |->
                          IF headers[i][1] = k
                          THEN <<k, headers[i][2] \o <<",", " ">> \o v>>
                          ELSE headers[i]]
                 ELSE Append(headers, <<k, v>>)
         IN  MergeHeaders(merged, Tail(cors))

(***************************************************************************)
(* WsgiApp.rpc and WsgiApp._parse_procedure_arguments                      *)
(***************************************************************************)
\* argument_name.startswith('_')
IsInternal(key) == key # <<>> /\ Head(key) = "_"

\* the parameters of a method: the items of its type hints whose key is not
\* internal, in order
RECURSIVE Parameters(_)
Parameters(hints) ==
    IF hints = <<>> THEN <<>>
    ELSE IF IsInternal(hints[1].key) THEN Parameters(Tail(hints))
    ELSE <<hints[1]>> \o Parameters(Tail(hints))

\* BehindName with the facial name taken for the wire name
BehindName_Facial(m, argument_name) == argument_name

\* name_map[argument_name] for name_map = type_hints['_names']
BehindName(m, argument_name) ==
    m.names[CHOOSE i \in 1..Len(m.names) : m.names[i][1] = argument_name][2]

RequiredText(behind_name) ==
    <<"A argument named '">> \o behind_name
    \o <<"' is missing, it is required.">>

IncorrectTypeText(data, behind_name, type) ==
    <<"Incorrect type '", data.t, "' for '">> \o behind_name
    \o <<"'. expected '", type, "'.">>

\* dict d with d[k] = v
Put(d, k, v) == [x \in DOMAIN d \cup {k} |-> IF x = k THEN v ELSE d[x]]

\* the loop of _parse_procedure_arguments over the parameters ps from the
\* first on: the arguments by facial name, or the text of the first
\* NirumProcedureArgumentRequiredError / ...ValueError raised
RECURSIVE ParseLoop(_, _, _, _)
ParseLoop(m, ps, request_json, arguments) ==
    IF ps = <<>> THEN [ok |-> TRUE, arguments |-> arguments, text |-> <<>>]
    ELSE LET argument_name == ps[1].key
             behind_name == BehindName(m, argument_name)
         IN  IF behind_name \notin DOMAIN request_json
             THEN [ok |-> FALSE, arguments |-> <<>>,
                   text |-> RequiredText(behind_name)]
             ELSE LET data == request_json[behind_name]
                      d == deserialize_meta(ps[1].type, data)
                  IN  IF ~d.ok
                      THEN [ok |-> FALSE, arguments |-> <<>>,
                            text |-> IncorrectTypeText(data, behind_name,
                                                       ps[1].type)]
                      ELSE ParseLoop(m, Tail(ps), request_json,
                               Put(arguments, argument_name, d.value))

parse_procedure_arguments(m, request_json) ==
    ParseLoop(m, Parameters(m.hints), request_json, <<>>)

\* what func(**arguments) gives for a behaviour: a value or an exception
ReturnedValue(behaviour) ==
    IF behaviour = "return" THEN [py |-> "text", s |-> <<"o", "k">>]
    ELSE [py |-> "int", s |-> <<"4">>]

\* check_return_type that accepts every result
check_return_type_Always(type_hint, procedure_result) == TRUE

\* _check_return_type(type_hint, procedure_result)
check_return_type(type_hint, procedure_result) ==
    deserialize_meta(type_hint, serialize_meta(procedure_result)).ok

NoSuchMethodText(service_method) ==
    <<"No service method '">> \o service_method \o <<"' found.">>

IncorrectReturnText(result, service_method, return_type) ==
    <<"Incorrect return type '", result.py, "' for '">> \o service_method
    \o <<"'. expected '", return_type, "'.">>

\* the outcome of rpc(): a response or an exception, the calls of service
\* methods made, and whether the result passed _check_return_type
RpcOutcome(response, calls, checked) ==
    [response |-> response, calls |-> calls, checked |-> checked]

ServiceMethodError == Raised("ServiceMethodError")

\* WsgiApp.rpc(request, service_method, request_json) on the service whose
\* methods are decl, the invoked method behaving as behaviour
rpc(decl, request, service_method, request_json, behaviour) ==
    LET found == {i \in 1..Len(decl) : decl[i].behind = service_method}
    IN  IF found = {} THEN RpcOutcome(ServiceMethodError, <<>>, FALSE)
        ELSE
        LET m == decl[CHOOSE i \in found : TRUE]
            parsed == parse_procedure_arguments(m, request_json)
            call == [method |-> m.name, arguments |-> parsed.arguments]
            result == ReturnedValue(behaviour)
        IN  IF m.impl = "absent"
            THEN RpcOutcome(
                     error(400, request,
                           Msg(<<"Service has no procedure '">>
                               \o service_method \o <<"'.">>)),
                     <<>>, FALSE)
            ELSE IF m.impl # "callable"
            THEN RpcOutcome(
                     error(400, request,
                           Msg(<<"Remote procedure '">> \o service_method
                               \o <<"' is not callable.">>)),
                     <<>>, FALSE)
            ELSE IF ~parsed.ok
            THEN RpcOutcome(error(400, request, Msg(parsed.text)), <<>>, FALSE)
            ELSE IF behaviour = "raise_declared" /\ m.errors
            THEN RpcOutcome(
                     raw_response(400,
                         [shape |-> "domain_error", tag |-> <<>>,
                          message |-> None, value |-> NoValue],
                         NoErrorCall),
                     <<call>>, FALSE)
            ELSE IF behaviour \in {"raise_declared", "raise_other"}
            THEN RpcOutcome(Raised("Exception"), <<call>>, FALSE)
            ELSE IF ~check_return_type(m.ret, result)
            THEN RpcOutcome(
                     error(400, request,
                           Msg(IncorrectReturnText(result, service_method,
                                                   m.ret))),
                     <<call>>, FALSE)
            ELSE RpcOutcome(
                     raw_response(200,
                         [shape |-> "result", tag |-> <<>>, message |-> None,
                          value |-> serialize_meta(result)],
                         NoErrorCall),
                     <<call>>, TRUE)

(***************************************************************************)
(* WsgiApp.route                                                           *)
(***************************************************************************)
\* verb.upper()
Upper(verb) ==
    CASE verb = "get" -> "GET"
      [] verb = "delete" -> "DELETE"
      [] verb = "post" -> "POST"
      [] OTHER -> verb

\* the test of the for loop on one rule
RuleMatches(rule, request) ==
    /\ PatternMatch(rule.pattern, request.path).ok
    /\ request.method = Upper(rule.verb)

\* the index of the rule the for loop breaks at, or 0 when it runs to its
\* else clause
MatchedRule(rules, request) ==
    LET hits == {i \in 1..Len(rules) : RuleMatches(rules[i], request)}
    IN  IF hits = {} THEN 0 ELSE CHOOSE i \in hits : \A j \in hits : i <= j

\* parse_json_payload(request)
parse_json_payload(request) ==
    IF request.body.kind = "invalid"
    THEN [ok |-> FALSE, json |-> <<>>]
    ELSE [ok |-> TRUE, json |-> request.body.obj]

InvalidJsonText == <<"Invalid JSON payload: '", "<payload>", "'.">>

\* the outcome of route(): that of rpc(), whether a rule matched and which,
\* and the cors_headers of the request
RouteOutcome(r, rule, cors) ==
    [response |-> r.response, calls |-> r.calls, checked |-> r.checked,
     rule |-> rule, cors |-> cors]

\* the end of route(), from 'if error_raised' on; error_raised is a sequence
\* holding the response, or <<>> for None
Dispatch(decl, request, behaviour, routed, rule, cors_headers, error_raised, service_method, payload) ==
    IF error_raised # <<>>
    THEN RouteOutcome(RpcOutcome(error_raised[1], <<>>, FALSE), rule,
                      cors_headers)
    ELSE IF service_method # <<>> /\ service_method[1] # <<>>
    THEN LET r == rpc(decl, request, service_method[1], payload, behaviour)
         IN  IF r.response = ServiceMethodError
             THEN RouteOutcome(
                      RpcOutcome(
                          error(IF routed THEN 404 ELSE 400, request,
                                Msg(NoSuchMethodText(service_method[1]))),
                          <<>>, FALSE),
                      rule, cors_headers)
             ELSE IF r.response.kind = "raised"
             THEN RouteOutcome(r, rule, cors_headers)
             ELSE RouteOutcome(
                      RpcOutcome(
                          [r.response EXCEPT !.headers =
                              MergeHeaders(r.response.headers, cors_headers)],
                          r.calls, r.checked),
                      rule, cors_headers)
    ELSE RouteOutcome(
             RpcOutcome(error(400, request, Msg(<<"'method' is missing.">>)),
                        <<>>, FALSE),
             rule, cors_headers)

\* the body of the for loop for the rule it breaks at
Routed(app, decl, request, behaviour, k) ==
    LET rule == app.rules[k]
        match == PatternMatch(rule.pattern, request.path)
        m == decl[CHOOSE i \in 1..Len(decl) : decl[i].name = rule.method_name]
        method_parameters == Parameters(m.hints)
        names == {method_parameters[i].key : i \in 1..Len(method_parameters)}
        parsed == parse_json_payload(request)
    IN  IF rule.verb \in {"GET", "DELETE"}
        THEN IF \E p \in names : ~HasGroup(match, p)
             THEN RouteOutcome(RpcOutcome(Raised("IndexError"), <<>>, FALSE),
                               k, <<>>)
             ELSE Dispatch(decl, request, behaviour, TRUE, k, <<>>, <<>>,
                           <<rule.method_name>>,
                           [p \in names |-> Str(Group(match, p))])
        ELSE Dispatch(decl, request, behaviour, TRUE, k, <<>>,
                      IF parsed.ok THEN <<>>
                      ELSE <<error(400, request, Msg(InvalidJsonText))>>,
                      <<rule.method_name>>, parsed.json)

\* the else clause of the for loop
Fallback(app, decl, request, behaviour) ==
    LET cors_headers == CorsHeaders(app, request)
        parsed == parse_json_payload(request)
        error_raised ==
            IF ~parsed.ok THEN <<error(400, request, Msg(InvalidJsonText))>>
            ELSE IF request.method \notin {"POST", "OPTIONS"}
            THEN <<error(405, request, None)>>
            ELSE <<>>
    IN  IF request.method = "OPTIONS"
        THEN RouteOutcome(
                 RpcOutcome(Response(200, cors_headers, NoBody, NoErrorCall),
                            <<>>, FALSE),
                 0, cors_headers)
        ELSE Dispatch(decl, request, behaviour, FALSE, 0, cors_headers,
                      error_raised, request.query, parsed.json)

\* WsgiApp.route(environ, start_response)
route(app, decl, request, behaviour) ==
    LET k == MatchedRule(app.rules, request)
    IN  IF k # 0 THEN Routed(app, decl, request, behaviour, k)
        ELSE Fallback(app, decl, request, behaviour)

NoOutcome == RouteOutcome(RpcOutcome(NoResponse, <<>>, FALSE), 0, <<>>)
NoRequest ==
    [method |-> "", path |-> <<>>, query |-> <<>>, body |-> EmptyBody,
     origin |-> <<>>]

(***************************************************************************)
(* The state machine.                                                      *)
(*   service   the declarations of the service given to WsgiApp            *)
(*   cors      the allowed_origins and allowed_headers given to WsgiApp    *)
(*   app       the WsgiApp: not constructed yet, constructed, or the       *)
(*             exception its constructor raised                            *)
(*   op        the last operation: "none", "route" or "error"              *)
(*   request   the request of the last operation                           *)
(*   behaviour how the service method behaved when the last route() ran    *)
(*   outcome   the outcome of the last operation                           *)
(***************************************************************************)
VARIABLES service, cors, app, op, request, behaviour, outcome

vars == <<service, cors, app, op, request, behaviour, outcome>>

NotConstructed ==
    [state |-> "new", raised |-> "", rules |-> <<>>, allowed_origins |-> {},
     allowed_headers |-> {}]

Init ==
    /\ service \in Declarations
    /\ cors \in CorsConfigs
    /\ app = NotConstructed
    /\ op = "none"
    /\ request = NoRequest
    /\ behaviour = ""
    /\ outcome = NoOutcome

\* app = WsgiApp(service, allowed_origins, allowed_headers)
Construct ==
    /\ app.state = "new"
    /\ app' = NewApp(service, cors)
    /\ UNCHANGED <<service, cors, op, request, behaviour, outcome>>

\* app(environ, start_response): one request handled from start to end;
\* how the service method behaves matters only if the request invokes one
Route ==
    /\ app.state = "built"
    /\ op = "none"
    /\ \E req \in Requests :
          \E beh \in IF route(app, service, req, "return").calls = <<>>
                     THEN {""}
                     ELSE Behaviours :
             /\ request' = req
             /\ behaviour' = beh
             /\ outcome' = route(app, service, req, beh)
    /\ op' = "route"
    /\ UNCHANGED <<service, cors, app>>

ErrorStatuses == {400, 404, 405, 500, 999}
ErrorMessages == {None, Msg(<<"given">>)}

\* app.error(status_code, request, message) called by itself
Error ==
    /\ app.state = "built"
    /\ op = "none"
    /\ \E status_code \in ErrorStatuses, message \in ErrorMessages,
          path \in {<<"/", "u", "/", "4">>} :
          LET req == [NoRequest EXCEPT !.method = "GET", !.path = path]
          IN  /\ request' = req
              /\ outcome' =
                    RouteOutcome(
                        RpcOutcome(error(status_code, req, message), <<>>,
                                   FALSE),
                        0, <<>>)
    /\ op' = "error"
    /\ behaviour' = ""
    /\ UNCHANGED <<service, cors, app>>

\* the call returns: the WsgiApp keeps nothing of a request
Return ==
    /\ op # "none"
    /\ op' = "none"
    /\ request' = NoRequest
    /\ behaviour' = ""
    /\ outcome' = NoOutcome
    /\ UNCHANGED <<service, cors, app>>

Next == Construct \/ Route \/ Error \/ Return

Spec == Init /\ [][Next]_vars
(***************************************************************************)
(* Properties.                                                             *)
(***************************************************************************)
Handled == op = "route"
Resp == outcome.response
Matched == outcome.rule # 0
Selected == app.rules[outcome.rule]
Answered(status) == Resp.kind = "response" /\ Resp.status = status
HeaderNames(headers) == {headers[i][1] : i \in 1..Len(headers)}
HeaderValue(headers, k) ==
    headers[CHOOSE i \in 1..Len(headers) : headers[i][1] = k][2]

\* the method of the service with a facial name
MethodNamed(name) ==
    service[CHOOSE i \in 1..Len(service) : service[i].name = name]

P_u_4 == <<"/", "u", "/", "4">>
P_u_4_x == <<"/", "u", "/", "4", "/", "x">>

\* C1: a compiled template matches only the full path.  For every rule, a
\* path made of a path the rule matches, a '/' and a further segment is not
\* matched by the rule; and with a GET rule for '/u/{i}' the request
\* GET /u/4/x matches no rule.
C1_FullPathOnly ==
    Handled =>
      /\ \A k \in 1..Len(app.rules) :
           \A n \in 1..(Len(request.path) - 2) :
              (/\ request.path[n + 1] = "/"
               /\ PatternMatch(app.rules[k].pattern,
                               SubSeq(request.path, 1, n)).ok)
              => ~PatternMatch(app.rules[k].pattern, request.path).ok
      /\ (/\ request.method = "GET"
          /\ request.path = P_u_4_x
          /\ \E k \in 1..Len(app.rules) :
                app.rules[k].template = T_u_i /\ app.rules[k].verb = "GET")
         => ~Matched

\* C2: on the fallback path every response carries the CORS headers that
\* were computed for the request, whether it is a success or an error.
C2_CorsOnEveryFallbackResponse ==
    (Handled /\ ~Matched /\ Resp.kind = "response") =>
       \A i \in 1..Len(outcome.cors) :
          \E j \in 1..Len(Resp.headers) : Resp.headers[j] = outcome.cors[i]

MethodNotAllowedTag ==
    <<"m", "e", "t", "h", "o", "d", "_", "n", "o", "t", "_",
      "a", "l", "l", "o", "w", "e", "d">>

\* C3: a request that matches no rule and whose verb is neither POST nor
\* OPTIONS is answered 405 method_not_allowed, whatever its query and body,
\* and no service method is invoked.
C3_OtherVerbIs405 ==
    (Handled /\ ~Matched /\ request.method \notin {"POST", "OPTIONS"}) =>
       /\ Answered(405)
       /\ Resp.body.shape = "envelope"
       /\ Resp.body.tag = MethodNotAllowedTag
       /\ outcome.calls = <<>>

\* C4: a request matched by a rule whose verb is GET or DELETE invokes the
\* rule's method with each parameter, by facial name, bound to the text the
\* path variable of its wire name captured.
C4_TemplatedCallBindsPathVariables ==
    (Handled /\ Matched /\ Upper(Selected.verb) \in {"GET", "DELETE"}) =>
       LET m == MethodNamed(Selected.method_name)
           ps == Parameters(m.hints)
           match == PatternMatch(Selected.pattern, request.path)
       IN  /\ Len(outcome.calls) = 1
           /\ outcome.calls[1].method = Selected.method_name
           /\ DOMAIN outcome.calls[1].arguments
                 = {ps[i].key : i \in 1..Len(ps)}
           /\ \A i \in 1..Len(ps) :
                 outcome.calls[1].arguments[ps[i].key].s
                    = Group(match, BehindName(m, ps[i].key))

\* the defects of an annotation that C5 names
VariablesOf(path) ==
    LET ps == Placeholders(path, 1)
    IN  [i \in 1..Len(ps) |-> HyphenToUnderscore(ps[i].name)]

IsRootPath(m) ==
    m.ann.hasPath /\ \A i \in 1..Len(m.ann.path) : m.ann.path[i] = "/"
HasDuplicate(m) ==
    LET vs == VariablesOf(m.ann.path)
    IN  \E i, j \in 1..Len(vs) : i # j /\ vs[i] = vs[j]
LeavesUncovered(m) ==
    LET vs == VariablesOf(m.ann.path)
    IN  \E w \in WireNames(m) : \A i \in 1..Len(vs) : vs[i] # w
Defective(m) ==
    m.ann.has /\ (IsRootPath(m) \/ HasDuplicate(m) \/ LeavesUncovered(m))

\* and the ones it does not name
Incomplete(m) ==
    m.ann.has /\
      (\/ ~m.ann.hasPath
       \/ ~m.ann.hasMethod
       \/ LET vs == VariablesOf(m.ann.path)
          IN  \E i \in 1..Len(vs) : ~IsIdentifier(vs[i]))

Constructed == app.state # "new"

\* C5 as stated: the constructor raises if some annotation is defective,
\* and succeeds if none is.
C5_RaisesExactlyOnDefects ==
    Constructed =>
       ((\E i \in 1..Len(service) : Defective(service[i]))
          <=> app.state = "raised")

\* C5, amended: the constructor raises (and leaves no rules, so that no
\* request is served) if some annotation is defective; it succeeds if none
\* is defective and every annotation holds a path and a verb and names only
\* variables that are identifiers.
C5_RaisesOnDefects ==
    Constructed =>
       /\ (\E i \in 1..Len(service) : Defective(service[i]))
            => (app.state = "raised" /\ app.rules = <<>> /\ ~ENABLED Route)
       /\ (\A i \in 1..Len(service) :
              ~Defective(service[i]) /\ ~Incomplete(service[i]))
            => app.state = "built"

C5_Witness ==
    /\ app.state = "raised"
    /\ app.raised = "AnnotationError: unsatisfied"
    /\ \E i \in 1..Len(service) : LeavesUncovered(service[i])

\* the orders the annotated methods of the service can be declared in
Reorderings ==
    LET n == Len(service) - 1
    IN  {<<Echo>> \o [i \in 1..n |-> service[f[i] + 1]] :
           f \in {g \in [1..n -> 1..n] : \A i, j \in 1..n :
                     i # j => g[i] # g[j]}}

SortedDescending(rules) ==
    \A i, j \in 1..Len(rules) :
       i < j => ~TextLess(rules[i].template, rules[j].template)

\* the rule the request is routed to when the service is declared as decl
SelectedOf(decl) ==
    LET a == NewApp(decl, cors) IN a.rules[MatchedRule(a.rules, request)]

\* the position in decl of the declaration of a method
DeclaredAt(decl, name) == CHOOSE i \in 1..Len(decl) : decl[i].name = name

\* C6 as stated: the rules are in descending order of template, a request
\* goes to the first rule that matches it, and that rule has the greatest
\* template among the rules that match and is the same whatever order the
\* annotations are declared in.
C6_SelectionIgnoresDeclarationOrder ==
    /\ SortedDescending(app.rules)
    /\ (Handled /\ Matched) =>
         /\ \A j \in 1..Len(app.rules) :
               RuleMatches(app.rules[j], request)
                 => (/\ outcome.rule <= j
                     /\ ~TextLess(Selected.template, app.rules[j].template))
         /\ \A decl \in Reorderings : SelectedOf(decl) = Selected

\* C6, amended: the rules are in descending order of template, a request
\* goes to the first rule that matches it, and that rule has the greatest
\* template among the rules that match, whatever order the annotations are
\* declared in; of the matching rules with that template it is the one
\* declared first.
C6_GreatestTemplateFirstDeclared ==
    /\ SortedDescending(app.rules)
    /\ (Handled /\ Matched) =>
         /\ RuleMatches(Selected, request)
         /\ \A j \in 1..Len(app.rules) :
               RuleMatches(app.rules[j], request)
                 => (/\ outcome.rule <= j
                     /\ ~TextLess(Selected.template, app.rules[j].template))
         /\ \A decl \in Reorderings :
               LET a == NewApp(decl, cors)
                   sel == SelectedOf(decl)
               IN  /\ sel.template = Selected.template
                   /\ \A j \in 1..Len(a.rules) :
                         (/\ RuleMatches(a.rules[j], request)
                          /\ a.rules[j].template = sel.template)
                         => DeclaredAt(decl, sel.method_name)
                              <= DeclaredAt(decl, a.rules[j].method_name)

\* two rules with different templates match the request, and the one
\* declared first is not the one selected
C6_Witness ==
    /\ Handled
    /\ Matched
    /\ \E j \in 1..Len(app.rules) :
          /\ RuleMatches(app.rules[j], request)
          /\ app.rules[j].template # Selected.template
          /\ DeclaredAt(service, app.rules[j].method_name)
               < DeclaredAt(service, Selected.method_name)

Preflight == Handled /\ request.method = "OPTIONS" /\ ~Matched

TagOf(status_code) ==
    CASE status_code = 400 ->
           <<"b", "a", "d", "_", "r", "e", "q", "u", "e", "s", "t">>
      [] status_code = 404 -> <<"n", "o", "t", "_", "f", "o", "u", "n", "d">>
      [] status_code = 405 -> MethodNotAllowedTag
      [] status_code = 500 ->
           <<"i", "n", "t", "e", "r", "n", "a", "l", "_", "s", "e", "r", "v",
             "e", "r", "_", "e", "r", "r", "o", "r">>
      [] OTHER -> <<"h", "t", "t", "p", "_", "e", "r", "r", "o", "r">>

\* C8: error(status_code, request, message) gives the envelope whose tag is
\* the status phrase in lower case joined by underscores, and whose message
\* is the given message when one is given, and otherwise the text
\* synthesized for 404 and for 405 and the status phrase for any other
\* status.
C8_ErrorMessage ==
    Resp.error.called =>
       LET given == Resp.error.message
           status_code == Resp.error.status_code
       IN  /\ Resp.body.shape = "envelope"
           /\ Resp.body.tag = TagOf(status_code)
           /\ Resp.body.message =
                 IF ~given.none THEN given
                 ELSE CASE status_code = 404 -> Msg(NotFoundText(request))
                        [] status_code = 405 -> Msg(NotAllowedText(request))
                        [] OTHER -> Msg(StatusText(status_code))

\* a classic call of e_o: POST ?method=e-o, no rule matched, a body that is
\* a JSON object
ClassicCall ==
    /\ Handled
    /\ ~Matched
    /\ request.method = "POST"
    /\ request.query = <<Echo.behind>>
    /\ request.body.kind = "json"

EchoParameters == Parameters(Echo.hints)
WireOf(i) == <<W_t, W_n>>[i]
Absent(i) == WireOf(i) \notin DOMAIN request.body.obj
Mistyped(i) ==
    /\ ~Absent(i)
    /\ ~deserialize_meta(EchoParameters[i].type,
                         request.body.obj[WireOf(i)]).ok
Refused(text) ==
    /\ Answered(400)
    /\ Resp.body.shape = "envelope"
    /\ Resp.body.message = Msg(text)
    /\ outcome.calls = <<>>
InvokedWithDecodedArguments ==
    /\ Len(outcome.calls) = 1
    /\ outcome.calls[1].method = Echo.name
    /\ DOMAIN outcome.calls[1].arguments
          = {EchoParameters[i].key : i \in 1..Len(EchoParameters)}
    /\ \A i \in 1..Len(EchoParameters) :
          outcome.calls[1].arguments[EchoParameters[i].key]
             = deserialize_meta(EchoParameters[i].type,
                                request.body.obj[WireOf(i)]).value

\* C9 as stated: in a classic call, a parameter whose wire key is absent
\* from the body gives 400 naming that key as required, a value that fails
\* to decode gives 400 naming its key, both without an invocation, and
\* otherwise the method is invoked once with the decoded values by facial
\* name.
C9_EveryOffendingKeyIsNamed ==
    ClassicCall =>
       /\ \A i \in 1..Len(EchoParameters) :
             Absent(i) => Refused(RequiredText(WireOf(i)))
       /\ \A i \in 1..Len(EchoParameters) :
             Mistyped(i) =>
                Refused(IncorrectTypeText(request.body.obj[WireOf(i)],
                                          WireOf(i), EchoParameters[i].type))
       /\ (\A i \in 1..Len(EchoParameters) : ~Absent(i) /\ ~Mistyped(i))
             => InvokedWithDecodedArguments

\* C9, amended: the 400 names the first parameter, in the order the method
\* declares them, whose wire key is absent (as required) or whose value
\* fails to decode (as of an incorrect type).
C9_FirstOffendingKeyIsNamed ==
    ClassicCall =>
       /\ \A i \in 1..Len(EchoParameters) :
             (\A j \in 1..(i - 1) : ~Absent(j) /\ ~Mistyped(j)) =>
                /\ Absent(i) => Refused(RequiredText(WireOf(i)))
                /\ Mistyped(i) =>
                      Refused(IncorrectTypeText(request.body.obj[WireOf(i)],
                                  WireOf(i), EchoParameters[i].type))
       /\ (\A i \in 1..Len(EchoParameters) : ~Absent(i) /\ ~Mistyped(i))
             => InvokedWithDecodedArguments

C9_Witness ==
    /\ ClassicCall
    /\ ~Absent(1)
    /\ Absent(2)
    /\ Refused(RequiredText(W_n))

Invoked == Handled /\ outcome.calls # <<>>
InvokedMethod == MethodNamed(outcome.calls[1].method)

\* once a method is invoked the request ends in one of four ways
FourOutcomes ==
    Invoked =>
       /\ behaviour = "return" =>
             /\ Answered(200)
             /\ Resp.body.shape = "result"
             /\ Resp.body.value = Str(<<"o", "k">>)
             /\ outcome.checked
       /\ behaviour = "return_mistyped" =>
             /\ Answered(400)
             /\ Resp.body.shape = "envelope"
             /\ Resp.body.message.text[1] = "Incorrect return type '"
             /\ Resp.body.message.text[2] = "int"
             /\ Resp.body.message.text[Len(Resp.body.message.text) - 1]
                   = "text"
       /\ (behaviour = "raise_declared" /\ InvokedMethod.errors) =>
             /\ Answered(400)
             /\ Resp.body.shape = "domain_error"
       /\ (\/ behaviour = "raise_other"
           \/ (behaviour = "raise_declared" /\ ~InvokedMethod.errors)) =>
             /\ Resp.kind = "raised"
             /\ Resp.exception = "Exception"

ValidatedReturn ==
    /\ Len(outcome.calls) = 1
    /\ behaviour = "return"
    /\ outcome.checked

\* C10 as stated: once a method is invoked the request ends in one of the
\* four ways, and a 200 response is never produced without an invocation
\* that returned a result that passed the return-type validation.
C10_OutcomesAndEvery200Validated ==
    /\ FourOutcomes
    /\ Resp.status = 200 => ValidatedReturn

\* C10, amended: the same, for every 200 response but the answer to an
\* OPTIONS request that matches no rule.
C10_OutcomesAndResult200Validated ==
    /\ FourOutcomes
    /\ (Resp.status = 200 /\ ~Preflight) => ValidatedReturn

C10_Witness ==
    /\ Invoked
    /\ behaviour = "return_mistyped"
    /\ Answered(400)
====
